---- MODULE Spec2Model ----
(***************************************************************************)
(* A model of the powerpack crate's script filter types (src/src/lib.rs):  *)
(* the builders of ModifierData and Item, their serde serialization to a   *)
(* JSON document, and Output::items / Output::write / output().            *)
(*                                                                         *)
(* Spec       explores the two builders: one ModifierData and one Item     *)
(*            under construction, each setter an action.                   *)
(* SpecOutput explores an Output: items() calls, writes to fresh sinks     *)
(*            that may fail at some write call, and the output() shortcut. *)
(***************************************************************************)
EXTENDS Naturals, Sequences, FiniteSets, TLC

VARIABLES
    item,    \* the Item under construction
    data,    \* the ModifierData under construction
    hist,    \* per Item method, the arguments it was called with, in order
    dhist,   \* per ModifierData method, the arguments it was called with
    out,     \* the Output value
    sink,    \* the io::Write sink handed to the last write
    result,  \* what the last write returned: "none", "Ok" or "Err"
    op       \* the last Output operation, its argument, and the last argument of items()

vars == <<item, data, hist, dhist, out, sink, result, op>>

----------------------------------------------------------------------------
(* Bounds of the exploration *)

\* builder calls (on the Item and the ModifierData together) per run
MaxCalls == 2
\* length of a sequence handed to Output::items / output
MaxItems == 2
\* a failing sink fails at its n-th write call, n in 1..MaxFail
MaxFail == 3

\* dairy::String values handed to the string setters
Strs == {"a", "b"}
\* titles handed to Item::new
Titles == {"t"}
\* dairy::PathBuf values and UTIs handed to the Icon constructors
Paths == {"/Applications/Safari.app", "public.jpeg"}
Bools == {TRUE, FALSE}

----------------------------------------------------------------------------
(* Option<T> *)

None == <<>>
Some(v) == <<v>>
Opt(S) == {None} \cup {Some(v) : v \in S}

----------------------------------------------------------------------------
(* The types *)

ModifierKey == {"Command", "Option", "Control", "Shift", "Function"}

\* #[serde(rename = ...)] on each variant of ModifierKey
SerModifierKey(k) ==
    CASE k = "Command"  -> "cmd"
      [] k = "Option"   -> "alt"
      [] k = "Control"  -> "ctrl"
      [] k = "Shift"    -> "shift"
      [] k = "Function" -> "fn"

Kind == {"Default", "File", "FileSkipCheck"}

\* #[serde(rename = ...)] on each variant of Kind
SerKind(k) ==
    CASE k = "Default"       -> "default"
      [] k = "File"          -> "file"
      [] k = "FileSkipCheck" -> "file:skipcheck"

\* impl Default for Kind
Kind_default == "Default"

is_default_never(t) == FALSE

\* fn is_default<T: Default + PartialEq>, used at T = Kind
is_default(t) == t = Kind_default

\* struct Text: every value of the type (it has no constructor of its own)
Text == [copy : Opt(Strs), large_type : Opt(Strs)]

with_image(path) == [variant |-> "Image", path |-> path]

with_file_icon(path) == [variant |-> "FileIcon", path |-> path]

with_type(uti) == [variant |-> "FileType", path |-> uti]

IconCtors == {"with_image", "with_file_icon", "with_type"}

\* the Icon a constructor call gives
Icon_call(ctor, p) ==
    CASE ctor = "with_image"     -> with_image(p)
      [] ctor = "with_file_icon" -> with_file_icon(p)
      [] ctor = "with_type"      -> with_type(p)

\* #[derive(Default)] on ModifierData
ModifierData_default ==
    [subtitle |-> None, arg |-> None, icon |-> None, valid |-> None]

ModifierData_new == ModifierData_default

\* #[derive(Default)] on Item: String::default() is "", HashMap::default() is empty.
\* modifiers is the map's entries <<key, data>> in the map's iteration order.
Item_default ==
    [title |-> "", subtitle |-> None, uid |-> None, arg |-> None,
     icon |-> None, valid |-> None, matches |-> None, autocomplete |-> None,
     kind |-> Kind_default, modifiers |-> <<>>, text |-> None,
     quicklook_url |-> None]

Item_new(title) == [Item_default EXCEPT !.title = title]

----------------------------------------------------------------------------
(* setter! *)

setter_option_keep_first(self, name, value) ==
    IF self[name] = None THEN [self EXCEPT ![name] = Some(value)] ELSE self

\* setter!($name, Option<$ty>): self.$name = Some(value.into()); self
setter_option(self, name, value) == [self EXCEPT ![name] = Some(value)]

\* setter!($name, $ty): self.$name = value.into(); self
setter_plain(self, name, value) == [self EXCEPT ![name] = value]

----------------------------------------------------------------------------
(* HashMap<ModifierKey, ModifierData> *)

RECURSIVE Perms(_)
\* every order of the elements of S
Perms(S) ==
    IF S = {} THEN {<<>>}
    ELSE UNION {{<<x>> \o p : p \in Perms(S \ {x})} : x \in S}

MapKeys(m) == {m[i][1] : i \in DOMAIN m}

MapGet(m, k) == LET i == CHOOSE i \in DOMAIN m : m[i][1] = k IN m[i][2]

HashMap_is_empty(m) == Len(m) = 0

HashMap_insert_push(m, key, value) == {Append(m, <<key, value>>)}

\* HashMap::insert: the maps that can result. An existing key keeps its slot and
\* gets the new value; a new key may land anywhere and may move the others (the
\* table may grow), so every order of the new key set is possible.
HashMap_insert(m, key, value) ==
    IF key \in MapKeys(m)
    THEN {[i \in DOMAIN m |-> IF m[i][1] = key THEN <<key, value>> ELSE m[i]]}
    ELSE {[i \in DOMAIN p |-> <<p[i], IF p[i] = key THEN value ELSE MapGet(m, p[i])>>] :
            p \in Perms(MapKeys(m) \cup {key})}

\* Item::modifier: the Items that can result
Item_modifier(self, key, d) ==
    {[self EXCEPT !.modifiers = m] : m \in HashMap_insert(self.modifiers, key, d)}

----------------------------------------------------------------------------
(* serde_json values: what a Serialize impl hands to the serializer *)

JNull == [t |-> "null", v |-> <<>>]
JBool(b) == [t |-> "bool", v |-> b]
JStr(s) == [t |-> "str", v |-> s]
\* elems: the elements in order
JArr(elems) == [t |-> "arr", v |-> elems]
\* members: the <<key, value>> pairs in the order they are emitted
JObj(members) == [t |-> "obj", v |-> members]

Keys(j) == {j.v[i][1] : i \in DOMAIN j.v}
HasKey(j, k) == k \in Keys(j)
Get(j, k) == LET i == CHOOSE i \in DOMAIN j.v : j.v[i][1] = k IN j.v[i][2]

\* serde's impl Serialize for Option<T>: None is serialize_none (null),
\* Some(v) is v's own serialization
SerOptionString(o) == IF o = None THEN JNull ELSE JStr(o[1])
SerOptionBool(o) == IF o = None THEN JNull ELSE JBool(o[1])

Option_is_none(o) == o = None

\* one field of a derived Serialize: left out when its skip_serializing_if holds
Field(key, skip, j) == IF skip THEN <<>> ELSE << <<key, j>> >>

\* #[derive(Serialize)] on Text: neither field has a skip_serializing_if
SerText(x) ==
    JObj(Field("copy", FALSE, SerOptionString(x.copy))
         \o Field("largetype", FALSE, SerOptionString(x.large_type)))

SerOptionText(o) == IF o = None THEN JNull ELSE SerText(o[1])

SerIcon_always_type(icon) ==
    JObj(<< <<"type", JStr(IF icon.variant = "FileType" THEN "filetype" ELSE "fileicon")>>,
            <<"path", JStr(icon.path)>> >>)

\* impl Serialize for Icon
SerIcon(icon) ==
    CASE icon.variant = "Image" ->
           JObj(<< <<"path", JStr(icon.path)>> >>)
      [] icon.variant = "FileIcon" ->
           JObj(<< <<"type", JStr("fileicon")>>, <<"path", JStr(icon.path)>> >>)
      [] icon.variant = "FileType" ->
           JObj(<< <<"type", JStr("filetype")>>, <<"path", JStr(icon.path)>> >>)

SerOptionIcon(o) == IF o = None THEN JNull ELSE SerIcon(o[1])

\* #[derive(Serialize)] on ModifierData
SerModifierData(d) ==
    JObj(Field("subtitle", Option_is_none(d.subtitle), SerOptionString(d.subtitle))
         \o Field("arg", Option_is_none(d.arg), SerOptionString(d.arg))
         \o Field("icon", Option_is_none(d.icon), SerOptionIcon(d.icon))
         \o Field("valid", Option_is_none(d.valid), SerOptionBool(d.valid)))

\* serde's impl Serialize for HashMap: one entry per pair, in iteration order
SerModifiers(m) ==
    JObj([i \in DOMAIN m |-> <<SerModifierKey(m[i][1]), SerModifierData(m[i][2])>>])

Item_key_unrenamed(f) == f

\* the key each field of Item is emitted under: its name, or its serde rename
Item_key(f) ==
    CASE f = "matches"       -> "match"
      [] f = "kind"          -> "type"
      [] f = "modifiers"     -> "mods"
      [] f = "quicklook_url" -> "quicklookurl"
      [] OTHER               -> f

\* #[derive(Serialize)] on Item, fields in declaration order
SerItem(i) ==
    JObj(Field(Item_key("title"), FALSE, JStr(i.title))
         \o Field(Item_key("subtitle"), Option_is_none(i.subtitle), SerOptionString(i.subtitle))
         \o Field(Item_key("uid"), Option_is_none(i.uid), SerOptionString(i.uid))
         \o Field(Item_key("arg"), Option_is_none(i.arg), SerOptionString(i.arg))
         \o Field(Item_key("icon"), Option_is_none(i.icon), SerOptionIcon(i.icon))
         \o Field(Item_key("valid"), Option_is_none(i.valid), SerOptionBool(i.valid))
         \o Field(Item_key("matches"), Option_is_none(i.matches), SerOptionString(i.matches))
         \o Field(Item_key("autocomplete"), Option_is_none(i.autocomplete),
                  SerOptionString(i.autocomplete))
         \o Field(Item_key("kind"), is_default(i.kind), JStr(SerKind(i.kind)))
         \o Field(Item_key("modifiers"), HashMap_is_empty(i.modifiers),
                  SerModifiers(i.modifiers))
         \o Field(Item_key("text"), Option_is_none(i.text), SerOptionText(i.text))
         \o Field(Item_key("quicklook_url"), Option_is_none(i.quicklook_url),
                  SerOptionString(i.quicklook_url)))

\* #[derive(Serialize)] on Output
SerOutput(o) == JObj(<< <<"items", JArr([k \in DOMAIN o.items |-> SerItem(o.items[k])])>> >>)

----------------------------------------------------------------------------
(* serde_json::to_writer: the compact formatter's writes to the sink *)

\* a string: the opening quote, the text (nothing for an empty one), the closing quote
RenderStr(s) == IF s = "" THEN <<"\"", "\"">> ELSE <<"\"", s, "\"">>

RECURSIVE Render(_)
RECURSIVE RenderMembers(_, _)
RECURSIVE RenderElems(_, _)

\* the members from the i-th on: a comma before all but the first, key, colon, value
RenderMembers(ms, i) ==
    IF i > Len(ms) THEN <<>>
    ELSE (IF i > 1 THEN <<",">> ELSE <<>>) \o RenderStr(ms[i][1]) \o <<":">>
         \o Render(ms[i][2]) \o RenderMembers(ms, i + 1)

\* the elements from the i-th on
RenderElems(es, i) ==
    IF i > Len(es) THEN <<>>
    ELSE (IF i > 1 THEN <<",">> ELSE <<>>) \o Render(es[i]) \o RenderElems(es, i + 1)

\* the pieces the serializer writes for a value, one per write_all call
Render(j) ==
    CASE j.t = "null" -> <<"null">>
      [] j.t = "bool" -> IF j.v THEN <<"true">> ELSE <<"false">>
      [] j.t = "str"  -> RenderStr(j.v)
      [] j.t = "arr"  -> <<"[">> \o RenderElems(j.v, 1) \o <<"]">>
      [] j.t = "obj"  -> <<"{">> \o RenderMembers(j.v, 1) \o <<"}">>

\* an io::Write that has taken nothing yet; failAt = 0 never fails, failAt = n
\* fails at its n-th write call
FreshSink(failAt) == [data |-> <<>>, calls |-> 0, failAt |-> failAt]

\* io::Write::write_all on the sink
Sink_write_all(w, piece) ==
    IF w.calls + 1 = w.failAt
    THEN [w |-> [w EXCEPT !.calls = @ + 1], ok |-> FALSE]
    ELSE [w |-> [w EXCEPT !.calls = @ + 1, !.data = Append(@, piece)], ok |-> TRUE]

\* the writes of the pieces from the i-th on, to a sink that can no longer fail
Sink_write_rest(w, pieces, i) ==
    [w EXCEPT !.calls = @ + (Len(pieces) + 1 - i),
              !.data = @ \o SubSeq(pieces, i, Len(pieces))]

RECURSIVE to_writer_from(_, _, _)
\* the serializer's writes from the i-th piece on: one write_all per piece, and the
\* first failed one ends the call with its error (the ? after every write)
to_writer_from(w, pieces, i) ==
    IF i > Len(pieces) THEN [w |-> w, res |-> "Ok"]
    ELSE IF w.failAt <= w.calls THEN [w |-> Sink_write_rest(w, pieces, i), res |-> "Ok"]
    ELSE LET r == Sink_write_all(w, pieces[i])
         IN  IF r.ok THEN to_writer_from(r.w, pieces, i + 1)
             ELSE [w |-> r.w, res |-> "Err"]

RECURSIVE to_writer_ignoring_errors_from(_, _, _)
to_writer_ignoring_errors_from(w, pieces, i) ==
    IF i > Len(pieces) THEN [w |-> w, res |-> "Ok"]
    ELSE IF w.failAt <= w.calls THEN [w |-> Sink_write_rest(w, pieces, i), res |-> "Ok"]
    ELSE to_writer_ignoring_errors_from(Sink_write_all(w, pieces[i]).w, pieces, i + 1)

to_writer_ignoring_errors(w, value) == to_writer_ignoring_errors_from(w, Render(value), 1)

\* serde_json::to_writer(w, value)
to_writer(w, value) == to_writer_from(w, Render(value), 1)

----------------------------------------------------------------------------
(* Output *)

\* #[derive(Default)] on Output
Output_default == [items |-> <<>>]

Output_items_extend(self, iter) == [self EXCEPT !.items = @ \o iter]

\* Output::items: self.items = iter.into_iter().collect(); self
Output_items(self, iter) == [self EXCEPT !.items = iter]

Output_write_draining(self, w) ==
    LET r == to_writer(w, SerOutput(self))
    IN  [self |-> [self EXCEPT !.items = <<>>], w |-> r.w, res |-> r.res]

\* Output::write(&self, w): the Output afterwards, the sink afterwards, the Result
Output_write(self, w) ==
    LET r == to_writer(w, SerOutput(self))
    IN  [self |-> self, w |-> r.w, res |-> r.res]

\* output(items), with the sink standing for io::stdout()
output(items, stdout) == Output_write(Output_items(Output_default, items), stdout)

----------------------------------------------------------------------------
(* The builders as a state machine *)

\* the methods of impl Item that take self and a value
OptionStringSetters ==
    {"subtitle", "uid", "arg", "matches", "autocomplete", "quicklook_url"}
ItemSetters == OptionStringSetters \cup {"icon", "valid", "kind", "text"}
ItemMethods == ItemSetters \cup {"modifier"}
\* the methods of impl ModifierData that take self and a value
DataSetters == {"subtitle", "arg", "icon", "valid"}

Icons == {Icon_call(c, p) : c \in IconCtors, p \in Paths}

\* the values a setter of Item can be handed
ItemArgs(name) ==
    CASE name \in OptionStringSetters -> Strs
      [] name = "icon"  -> Icons
      [] name = "valid" -> Bools
      [] name = "kind"  -> Kind
      [] name = "text"  -> Text

\* the values a setter of ModifierData can be handed
DataArgs(name) ==
    CASE name \in {"subtitle", "arg"} -> Strs
      [] name = "icon"  -> Icons
      [] name = "valid" -> Bools

\* the setter! instances of impl Item: kind holds a bare Kind, the others an Option
Item_setter(self, name, value) ==
    IF name = "kind" THEN setter_plain(self, name, value)
    ELSE setter_option(self, name, value)

\* the setter! instances of impl ModifierData
ModifierData_setter(self, name, value) == setter_option(self, name, value)

\* ModifierData::new().valid(false), an override built where it is passed
InlineData == {ModifierData_setter(ModifierData_new, "valid", FALSE)}

\* builder calls made so far on the Item and the ModifierData under construction
Calls ==
    Len(hist.subtitle) + Len(hist.uid) + Len(hist.arg) + Len(hist.icon)
    + Len(hist.valid) + Len(hist.matches) + Len(hist.autocomplete) + Len(hist.kind)
    + Len(hist.text) + Len(hist.quicklook_url) + Len(hist.modifier)
    + Len(dhist.subtitle) + Len(dhist.arg) + Len(dhist.icon) + Len(dhist.valid)

NoCalls(title) == [f \in ItemMethods \cup {"new"} |-> IF f = "new" THEN <<title>> ELSE <<>>]
NoDataCalls == [f \in DataSetters |-> <<>>]

Init ==
    /\ \E title \in Titles : item = Item_new(title) /\ hist = NoCalls(title)
    /\ data = ModifierData_new
    /\ dhist = NoDataCalls
    /\ out = Output_default
    /\ sink = FreshSink(0)
    /\ result = "none"
    /\ op = [name |-> "default", arg |-> <<>>, items_arg |-> <<>>]

\* a call of a method of the Item: arg is what the caller wrote, next the Item returned
ItemCall(name, arg, next) ==
    /\ Calls < MaxCalls
    /\ item' = next
    /\ hist' = [hist EXCEPT ![name] = Append(@, arg)]
    /\ UNCHANGED <<data, dhist, out, sink, result, op>>

\* a call of a setter of the ModifierData
DataCall(name, arg, next) ==
    /\ Calls < MaxCalls
    /\ data' = next
    /\ dhist' = [dhist EXCEPT ![name] = Append(@, arg)]
    /\ UNCHANGED <<item, hist, out, sink, result, op>>

ItemNew ==
    \E title \in Titles :
        /\ item' = Item_new(title)
        /\ hist' = NoCalls(title)
        /\ UNCHANGED <<data, dhist, out, sink, result, op>>

ItemSubtitle == \E v \in Strs : ItemCall("subtitle", v, Item_setter(item, "subtitle", v))
ItemUid == \E v \in Strs : ItemCall("uid", v, Item_setter(item, "uid", v))
ItemArg == \E v \in Strs : ItemCall("arg", v, Item_setter(item, "arg", v))
ItemIcon ==
    \E c \in IconCtors, p \in Paths :
        ItemCall("icon", <<c, p>>, Item_setter(item, "icon", Icon_call(c, p)))
ItemValid == \E v \in Bools : ItemCall("valid", v, Item_setter(item, "valid", v))
ItemMatches == \E v \in Strs : ItemCall("matches", v, Item_setter(item, "matches", v))
ItemAutocomplete ==
    \E v \in Strs : ItemCall("autocomplete", v, Item_setter(item, "autocomplete", v))
ItemKind == \E v \in Kind : ItemCall("kind", v, Item_setter(item, "kind", v))
ItemText == \E v \in Text : ItemCall("text", v, Item_setter(item, "text", v))
ItemQuicklookUrl ==
    \E v \in Strs : ItemCall("quicklook_url", v, Item_setter(item, "quicklook_url", v))
\* item.modifier(key, d), d the ModifierData under construction or an override
\* written in place
ItemModifier ==
    \E key \in ModifierKey, d \in {data} \cup InlineData :
        \E next \in Item_modifier(item, key, d) :
            ItemCall("modifier", <<key, d>>, next)

DataSubtitle ==
    \E v \in Strs : DataCall("subtitle", v, ModifierData_setter(data, "subtitle", v))
DataArg == \E v \in Strs : DataCall("arg", v, ModifierData_setter(data, "arg", v))
DataIcon ==
    \E c \in IconCtors, p \in Paths :
        DataCall("icon", <<c, p>>, ModifierData_setter(data, "icon", Icon_call(c, p)))
DataValid == \E v \in Bools : DataCall("valid", v, ModifierData_setter(data, "valid", v))

Next ==
    \/ ItemNew
    \/ ItemSubtitle
    \/ ItemUid
    \/ ItemArg
    \/ ItemIcon
    \/ ItemValid
    \/ ItemMatches
    \/ ItemAutocomplete
    \/ ItemKind
    \/ ItemText
    \/ ItemQuicklookUrl
    \/ ItemModifier
    \/ DataSubtitle
    \/ DataArg
    \/ DataIcon
    \/ DataValid

Spec == Init /\ [][Next]_vars

----------------------------------------------------------------------------
(* The Output as a state machine *)

\* Item::new("Example title").subtitle("example subtitle").arg("example")
ExampleItem ==
    Item_setter(Item_setter(Item_new("Example title"), "subtitle", "example subtitle"),
                "arg", "example")

\* Item::new("t").icon(Icon::with_file_icon("/Applications/Safari.app"))
\*     .modifier(ModifierKey::Command, ModifierData::new().valid(false))
SafariItems ==
    Item_modifier(Item_setter(Item_new("t"), "icon",
                              with_file_icon("/Applications/Safari.app")),
                  "Command", ModifierData_setter(ModifierData_new, "valid", FALSE))

\* the Items a caller hands to items() and output()
ItemInputs == {ExampleItem} \cup SafariItems

RECURSIVE SeqsUpTo(_, _)
\* the sequences over S of length at most n
SeqsUpTo(S, n) ==
    IF n = 0 THEN {<<>>}
    ELSE LET shorter == SeqsUpTo(S, n - 1)
         IN  shorter \cup {Append(q, x) : q \in shorter, x \in S}

\* the finite sequences a caller hands to items() and output()
IterInputs == SeqsUpTo(ItemInputs, MaxItems)

\* out = out.items(iter)
OutputItems ==
    \E iter \in IterInputs :
        /\ out' = Output_items(out, iter)
        /\ op' = [name |-> "items", arg |-> iter, items_arg |-> iter]
        /\ UNCHANGED <<item, data, hist, dhist, sink, result>>

\* out.write(w) on a fresh sink w
OutputWrite ==
    \E failAt \in 0..MaxFail :
        LET r == Output_write(out, FreshSink(failAt))
        IN  /\ out' = r.self
            /\ sink' = r.w
            /\ result' = r.res
            /\ op' = [op EXCEPT !.name = "write", !.arg = <<>>]
            /\ UNCHANGED <<item, data, hist, dhist>>

\* output(iter), stdout a fresh sink
OutputShortcut ==
    \E iter \in IterInputs, failAt \in 0..MaxFail :
        LET r == output(iter, FreshSink(failAt))
        IN  /\ sink' = r.w
            /\ result' = r.res
            /\ op' = [op EXCEPT !.name = "output", !.arg = iter]
            /\ UNCHANGED <<item, data, hist, dhist, out>>

NextOutput ==
    \/ OutputItems
    \/ OutputWrite
    \/ OutputShortcut

SpecOutput == Init /\ [][NextOutput]_vars

----------------------------------------------------------------------------
(* Properties *)

Last(q) == q[Len(q)]

RECURSIVE NoNull(_)
\* no null anywhere in a JSON value
NoNull(j) ==
    /\ j.t # "null"
    /\ j.t = "obj" => \A i \in DOMAIN j.v : NoNull(j.v[i][2])
    /\ j.t = "arr" => \A i \in DOMAIN j.v : NoNull(j.v[i])

\* the key the format documents for each optional field of an Item
DocumentedKey(f) ==
    CASE f = "matches"       -> "match"
      [] f = "quicklook_url" -> "quicklookurl"
      [] OTHER               -> f

\* the keys of the optional fields of the builders
ItemOptionalFields ==
    {"subtitle", "uid", "arg", "autocomplete", "icon", "valid", "text", "matches",
     "quicklook_url"}

\* C1: a Text whose copy (respectively largeType) is absent serializes to an object
\* without that key, and never with a null under it. Stated of the Text an Item holds.
C1_TextOmitsAbsentFields ==
    item.text # None =>
        LET x == item.text[1]
            j == Get(SerItem(item), "text")
        IN  /\ x.copy = None => ~HasKey(j, "copy")
            /\ x.large_type = None => ~HasKey(j, "largetype")
            /\ NoNull(j)

\* the part of C2 about which keys appear: title always, an optional field's key
\* exactly when its setter was called, for the Item and for the ModifierData
C2_KeysIffSetterCalled ==
    /\ HasKey(SerItem(item), "title")
    /\ \A f \in ItemOptionalFields :
           HasKey(SerItem(item), DocumentedKey(f)) <=> hist[f] # <<>>
    /\ \A f \in DataSetters :
           HasKey(SerModifierData(data), f) <=> dhist[f] # <<>>

\* the part of C2 about null: nothing in either serialized object is null
C2_NoNullEmitted ==
    /\ NoNull(SerItem(item))
    /\ NoNull(SerModifierData(data))

\* C2: for every Item reached by Item::new and setter calls, and every ModifierData
\* reached by ModifierData::new and setter calls, the serialized object holds title,
\* holds an optional field's key exactly when its setter was called, and holds no null.
C2_KeysIffCalledAndNoNull == C2_KeysIffSetterCalled /\ C2_NoNullEmitted

\* C3: no type key when kind was never set or was last set to Default (also after
\* File or FileSkipCheck); "file" when last set to File, "file:skipcheck" when last
\* set to FileSkipCheck.
C3_KindSerialization ==
    LET j == SerItem(item)
    IN  /\ hist.kind = <<>> => ~HasKey(j, "type")
        /\ hist.kind # <<>> =>
             /\ Last(hist.kind) = "Default" => ~HasKey(j, "type")
             /\ Last(hist.kind) = "File" =>
                    HasKey(j, "type") /\ Get(j, "type") = JStr("file")
             /\ Last(hist.kind) = "FileSkipCheck" =>
                    HasKey(j, "type") /\ Get(j, "type") = JStr("file:skipcheck")

\* kind set to a file kind and then back to Default
C3_Witness ==
    /\ Len(hist.kind) = 2
    /\ hist.kind[1] \in {"File", "FileSkipCheck"}
    /\ hist.kind[2] = "Default"

\* the short name the format documents for each modifier key
DocumentedShortName(k) ==
    CASE k = "Command"  -> "cmd"
      [] k = "Option"   -> "alt"
      [] k = "Control"  -> "ctrl"
      [] k = "Shift"    -> "shift"
      [] k = "Function" -> "fn"

RECURSIVE ModifierEach(_, _, _)
\* the Items that modifier(key, d), called for each key of keys in turn, can give
ModifierEach(items, keys, d) ==
    IF keys = <<>> THEN items
    ELSE ModifierEach(UNION {Item_modifier(i, Head(keys), d) : i \in items}, Tail(keys), d)

\* C4: no mods key while modifier() was never called; afterwards mods is an object
\* with exactly one entry per distinct key passed (at most five), under the key's
\* short name, the five short names being cmd, alt, ctrl, shift, fn and distinct;
\* one Command override with valid = false gives "mods":{"cmd":{"valid":false}}.
C4_ModsSerialization ==
    LET j == SerItem(item)
        passed == {hist.modifier[i][1] : i \in DOMAIN hist.modifier}
    IN  /\ hist.modifier = <<>> => ~HasKey(j, "mods")
        /\ hist.modifier # <<>> =>
             /\ HasKey(j, "mods")
             /\ Get(j, "mods").t = "obj"
             /\ Len(Get(j, "mods").v) = Cardinality(passed)
             /\ Len(Get(j, "mods").v) <= 5
             /\ Keys(Get(j, "mods")) = {DocumentedShortName(k) : k \in passed}
        /\ \A k \in ModifierKey : SerModifierKey(k) = DocumentedShortName(k)
        /\ Cardinality({SerModifierKey(k) : k \in ModifierKey}) = 5
        /\ hist.modifier = << <<"Command", [subtitle |-> None, arg |-> None,
                                            icon |-> None, valid |-> Some(FALSE)]>> >>
             => Get(j, "mods") = JObj(<< <<"cmd", JObj(<< <<"valid", JBool(FALSE)>> >>)>> >>)
        \* all five keys, one of them twice, on an Item fresh from new()
        /\ Calls = 0 =>
             \A full \in ModifierEach({item}, <<"Command", "Option", "Control", "Shift",
                                                "Function", "Command">>, ModifierData_new) :
                 /\ Len(Get(SerItem(full), "mods").v) = 5
                 /\ Keys(Get(SerItem(full), "mods")) = {"cmd", "alt", "ctrl", "shift", "fn"}

\* modifier() called twice with the same key
C4_Witness ==
    /\ Len(hist.modifier) = 2
    /\ hist.modifier[1][1] = hist.modifier[2][1]
    /\ hist.modifier[1][2] # hist.modifier[2][2]

\* C5: matches is emitted as match and quicklook_url as quicklookurl; no serialized
\* Item has a key matches, quicklook_url, kind or modifiers.
C5_KeyRenames ==
    LET j == SerItem(item)
    IN  /\ hist.matches # <<>> => HasKey(j, "match")
        /\ hist.quicklook_url # <<>> => HasKey(j, "quicklookurl")
        /\ Keys(j) \cap {"matches", "quicklook_url", "kind", "modifiers"} = {}

\* both renamed string fields set
C5_Witness == hist.matches # <<>> /\ hist.quicklook_url # <<>>

\* the object the format documents for the Icon a constructor call gives
DocumentedIconShape(j, ctor, p) ==
    /\ j.t = "obj"
    /\ Get(j, "path") = JStr(p)
    /\ CASE ctor = "with_image" -> Keys(j) = {"path"} /\ Len(j.v) = 1
         [] ctor = "with_file_icon" ->
              Keys(j) = {"type", "path"} /\ Len(j.v) = 2 /\ Get(j, "type") = JStr("fileicon")
         [] ctor = "with_type" ->
              Keys(j) = {"type", "path"} /\ Len(j.v) = 2 /\ Get(j, "type") = JStr("filetype")

\* C6: with_image(p) serializes to {"path": p}, with_file_icon(p) to
\* {"type": "fileicon", "path": p}, with_type(u) to {"type": "filetype", "path": u},
\* with no other key, whether an Item holds the Icon, a ModifierData does, or a
\* ModifierData inside an Item's mods does.
C6_IconShapes ==
    /\ hist.icon # <<>> =>
           DocumentedIconShape(Get(SerItem(item), "icon"),
                               Last(hist.icon)[1], Last(hist.icon)[2])
    /\ dhist.icon # <<>> =>
           /\ DocumentedIconShape(Get(SerModifierData(data), "icon"),
                                  Last(dhist.icon)[1], Last(dhist.icon)[2])
           /\ \A i \in DOMAIN item.modifiers :
                  item.modifiers[i][2] = data =>
                      DocumentedIconShape(
                          Get(Get(Get(SerItem(item), "mods"),
                                  DocumentedShortName(item.modifiers[i][1])), "icon"),
                          Last(dhist.icon)[1], Last(dhist.icon)[2])

\* an Icon made by with_image in a ModifierData that an Item holds
C6_Witness ==
    /\ dhist.icon # <<>>
    /\ Last(dhist.icon)[1] = "with_image"
    /\ \E i \in DOMAIN item.modifiers : item.modifiers[i][2] = data

\* the ModifierData that modifier() was last handed for key k
LastPassed(k) ==
    LET i == CHOOSE i \in DOMAIN hist.modifier :
                 /\ hist.modifier[i][1] = k
                 /\ \A n \in DOMAIN hist.modifier : hist.modifier[n][1] = k => n <= i
    IN  hist.modifier[i][2]

\* every field holds what the last call of its own setter passed, and what new()
\* gave it if there was none: the calls' order across fields does not matter
LastWriteWins ==
    /\ item.title = hist.new[1]
    /\ \A f \in OptionStringSetters \cup {"valid", "text"} :
           item[f] = IF hist[f] = <<>> THEN None ELSE Some(Last(hist[f]))
    /\ item.icon = IF hist.icon = <<>> THEN None
                   ELSE Some(Icon_call(Last(hist.icon)[1], Last(hist.icon)[2]))
    /\ item.kind = IF hist.kind = <<>> THEN "Default" ELSE Last(hist.kind)
    /\ MapKeys(item.modifiers) = {hist.modifier[i][1] : i \in DOMAIN hist.modifier}
    /\ Len(item.modifiers) = Cardinality(MapKeys(item.modifiers))
    /\ \A k \in MapKeys(item.modifiers) : MapGet(item.modifiers, k) = LastPassed(k)
    /\ \A f \in {"subtitle", "arg", "valid"} :
           data[f] = IF dhist[f] = <<>> THEN None ELSE Some(Last(dhist[f]))
    /\ data.icon = IF dhist.icon = <<>> THEN None
                   ELSE Some(Icon_call(Last(dhist.icon)[1], Last(dhist.icon)[2]))

ItemFields == DOMAIN Item_default
DataFields == DOMAIN ModifierData_default

\* a setter called a second time with the same value changes nothing, and a setter
\* changes no field but its own; modifier() likewise, entry by entry
IdempotentAndFramed ==
    /\ \A f \in ItemSetters : \A v \in ItemArgs(f) :
           LET once == Item_setter(item, f, v)
           IN  /\ Item_setter(once, f, v) = once
               /\ \A g \in ItemFields \ {f} : once[g] = item[g]
    /\ \A f \in DataSetters : \A v \in DataArgs(f) :
           LET once == ModifierData_setter(data, f, v)
           IN  /\ ModifierData_setter(once, f, v) = once
               /\ \A g \in DataFields \ {f} : once[g] = data[g]
    /\ \A k \in ModifierKey : \A d \in {data} \cup InlineData :
           \A once \in Item_modifier(item, k, d) :
               /\ Item_modifier(once, k, d) = {once}
               /\ \A g \in ItemFields \ {"modifiers"} : once[g] = item[g]
               /\ MapKeys(once.modifiers) = MapKeys(item.modifiers) \cup {k}
               /\ \A k2 \in MapKeys(item.modifiers) \ {k} :
                      MapGet(once.modifiers, k2) = MapGet(item.modifiers, k2)

\* C8: the setters of Item and ModifierData are order-independent, idempotent and
\* last-write-wins: the value a field holds is the one its setter (or modifier() for
\* that key) was last called with, a second call with the same value changes nothing,
\* and a call leaves title and every other field (every other key's entry) alone.
C8_Setters == LastWriteWins /\ IdempotentAndFramed

\* one setter called twice, with two different values
C8_Witness ==
    \E f \in ItemSetters : Len(hist[f]) = 2 /\ hist[f][1] # hist[f][2]

\* C7: the Output holds exactly the sequence items() was last handed, in order; a
\* successful write emits the items array of those Items in that order; an Output
\* with no items is written as {"items":[]}.
C7_ItemsReplaceAndOrder ==
    /\ out.items = op.items_arg
    /\ (op.name \in {"write", "output"} /\ result = "Ok") =>
         LET given == IF op.name = "write" THEN op.items_arg ELSE op.arg
         IN  /\ sink.data =
                    Render(JObj(<< <<"items",
                                     JArr([k \in DOMAIN given |-> SerItem(given[k])])>> >>))
             /\ given = <<>> =>
                    sink.data = <<"{", "\"", "items", "\"", ":", "[", "]", "}">>

\* two different Items written by write, in the order they were given
C7_Witness ==
    /\ op.name = "write"
    /\ result = "Ok"
    /\ Len(out.items) = 2
    /\ out.items[1] # out.items[2]

\* C9: write leaves the Output as it was, whether it succeeds or fails, and a second
\* successful write of the Output to a fresh sink emits what the first one did.
C9_WriteDoesNotMutate ==
    [][op'.name = "write" =>
          /\ out' = out
          /\ (op.name = "write" /\ result = "Ok" /\ result' = "Ok") =>
                 sink'.data = sink.data]_vars

\* an Output with items, written
C9_Witness == op.name = "write" /\ result = "Ok" /\ out.items # <<>>

\* C10: when the sink fails during write or output, the call returns the error; it
\* does not return success, makes no further write call to the sink, and leaves in
\* the sink what had been written before the failure.
C10_SinkFailureReturned ==
    op.name \in {"write", "output"} =>
        LET given == IF op.name = "write" THEN out.items ELSE op.arg
            pieces == Render(SerOutput([items |-> given]))
        IN  IF sink.failAt \in 1..Len(pieces)
            THEN /\ result = "Err"
                 /\ sink.calls = sink.failAt
                 /\ sink.data = SubSeq(pieces, 1, sink.failAt - 1)
            ELSE /\ result = "Ok"
                 /\ sink.data = pieces

\* a write that failed after the sink had taken part of the document
C10_Witness == op.name = "write" /\ result = "Err" /\ Len(sink.data) >= 1

====
